---- MODULE Spec2Model ----
(***************************************************************************)
(* The random-eviction caches of random_cache.py: SimpleCache and its      *)
(* subclasses OptimizedCache, OptimizedCache2 .. OptimizedCache5, and      *)
(* OptimizedCacheMB.  A cache object is a record of its attributes; each   *)
(* method is an operator from the object and the arguments to the SET of   *)
(* its possible outcomes (the object afterwards, the exception raised if   *)
(* any, the value returned).  The set has more than one element where the  *)
(* method draws random.randint or pops a Python set.  An exception leaves  *)
(* the object as the statements before the raising one made it.            *)
(***************************************************************************)
EXTENDS Integers, Sequences, FiniteSets, TLC

VARIABLES self, last

vars == <<self, last>>

\* ------------------------------------------------------------------ bounds
MaxKey == 3
MaxVal == 1
MaxCap == 2
MaxNeg == 1
MaxRepl == 2

Keys == 1..MaxKey
Values == 0..MaxVal
Capacities == (0 - MaxNeg)..MaxCap

\* Python's None, a key no caller passes (keys are 1..MaxKey).
None == 0

Classes == {"SimpleCache", "OptimizedCache", "OptimizedCache2", "OptimizedCache3",
            "OptimizedCache4", "OptimizedCache5", "OptimizedCacheMB"}

\* ------------------------------------------------- outcomes of a method call
\* nrep counts the calls of _replace made during the method call.
Return(o, v, n) == [o |-> o, exc |-> "none", ret |-> v, nrep |-> n]
Raise(o, e, n) == [o |-> o, exc |-> e, ret |-> None, nrep |-> n]

\* ------------------------------------------------------- Python containers
\* range(0, n) as the list [0, 1, .., n-1]; empty when n <= 0.
range(n) == [i \in 1..n |-> i - 1]

\* A dict whose order is never read: a function on its keys.
EmptyDict == << >>
DictSet(d, k, x) == [y \in DOMAIN d \cup {k} |-> IF y = k THEN x ELSE d[y]]
DictDel(d, k) == [y \in DOMAIN d \ {k} |-> d[y]]

\* A list index i is valid when -len <= i < len; a negative i counts from the end.
ListInRange(l, i) == i >= -Len(l) /\ i < Len(l)
ListPos(l, i) == IF i < 0 THEN i + Len(l) + 1 ELSE i + 1
ListGet(l, i) == l[ListPos(l, i)]
ListSet(l, i, x) == [l EXCEPT ![ListPos(l, i)] = x]
ListPop(l) == SubSeq(l, 1, Len(l) - 1)
ListDelAt(l, p) == SubSeq(l, 1, p - 1) \o SubSeq(l, p + 1, Len(l))

\* A dict whose order is read (SimpleCache._data): the list of its (key, value)
\* items in insertion order; overwriting a key keeps its place.
ItemKeys(d) == [i \in 1..Len(d) |-> d[i][1]]
ItemHas(d, k) == \E i \in 1..Len(d) : d[i][1] = k
ItemPos(d, k) == CHOOSE i \in 1..Len(d) : d[i][1] = k
ItemSet(d, k, x) == IF ItemHas(d, k) THEN [d EXCEPT ![ItemPos(d, k)] = <<k, x>>]
                    ELSE Append(d, <<k, x>>)
ItemDel(d, k) == ListDelAt(d, ItemPos(d, k))

\* random.randint(0, capacity - 1): the possible draws; empty (ValueError) when
\* capacity <= 0.
randint(a, b) == a..b

RECURSIVE SimpleCache_put(_, _, _)
RECURSIVE OptimizedCache_put(_, _, _)
RECURSIVE OptimizedCache2_put(_, _, _)
RECURSIVE OptimizedCache3_put(_, _, _)
RECURSIVE OptimizedCache4_put(_, _, _)
RECURSIVE OptimizedCache5_put(_, _, _)

\* Adds the calls of _replace made by a nested call to those of the caller.
Nested(out, n) == [out EXCEPT !.nrep = out.nrep + n]

\* ------------------------------------------------------------- SimpleCache
SimpleCache__init__(capacity) ==
    [cls |-> "SimpleCache", _capacity |-> capacity, _data |-> << >>,
     _replacement_counter |-> 0]

\* SimpleCache__replace taking the first key of the dict whatever the draw.
SimpleCache__replace_first(o, key, value) ==
    IF randint(0, o._capacity - 1) = {} THEN {Raise(o, "ValueError", 1)}
    ELSE UNION {
        IF random_idx >= Len(o._data) THEN {Raise(o, "IndexError", 1)}
        ELSE LET random_key == ItemKeys(o._data)[1]
                 o1 == [o EXCEPT !._data = ItemDel(o._data, random_key)]
             IN { IF out.exc # "none" THEN Nested(out, 1)
                  ELSE Return([out.o EXCEPT !._replacement_counter = @ + 1],
                              None, out.nrep + 1)
                  : out \in SimpleCache_put(o1, key, value) }
        : random_idx \in randint(0, o._capacity - 1) }

SimpleCache__replace(o, key, value) ==
    IF randint(0, o._capacity - 1) = {} THEN {Raise(o, "ValueError", 1)}
    ELSE UNION {
        IF random_idx >= Len(o._data) THEN {Raise(o, "IndexError", 1)}
        ELSE LET random_key == ItemKeys(o._data)[random_idx + 1]
                 o1 == [o EXCEPT !._data = ItemDel(o._data, random_key)]
             IN { IF out.exc # "none" THEN Nested(out, 1)
                  ELSE Return([out.o EXCEPT !._replacement_counter = @ + 1],
                              None, out.nrep + 1)
                  : out \in SimpleCache_put(o1, key, value) }
        : random_idx \in randint(0, o._capacity - 1) }

SimpleCache_put(o, key, value) ==
    IF ItemHas(o._data, key)
    THEN {Return([o EXCEPT !._data = ItemSet(o._data, key, value)], None, 0)}
    ELSE IF Len(o._data) = o._capacity
    THEN SimpleCache__replace(o, key, value)
    ELSE {Return([o EXCEPT !._data = ItemSet(o._data, key, value)], None, 0)}

SimpleCache_get(o, key) ==
    IF ItemHas(o._data, key) THEN {Return(o, o._data[ItemPos(o._data, key)][2], 0)}
    ELSE {Raise(o, "KeyError", 0)}

\* SimpleCache_delete written with self._data.pop(key, None): an absent key is
\* passed over in silence.
SimpleCache_delete_pop(o, key) ==
    IF ItemHas(o._data, key)
    THEN {Return([o EXCEPT !._data = ItemDel(o._data, key)], None, 0)}
    ELSE {Return(o, None, 0)}

SimpleCache_delete(o, key) ==
    IF ItemHas(o._data, key)
    THEN {Return([o EXCEPT !._data = ItemDel(o._data, key)], None, 0)}
    ELSE {Raise(o, "KeyError", 0)}

\* ---------------------------------------------------------- OptimizedCache
\* _data: key -> (value, idx) as <<value, idx>>, so Python's t[0] is t[1] here;
\* _available_idxes: a set; _used_idxes: idx -> key.
OptimizedCache__init__(capacity) ==
    [cls |-> "OptimizedCache", _capacity |-> capacity, _data |-> EmptyDict,
     _replacement_counter |-> 0,
     _available_idxes |-> {i \in 0..(capacity - 1) : TRUE},
     _used_idxes |-> EmptyDict]

OptimizedCache__delete_idx(o, idx) ==
    IF idx \notin DOMAIN o._used_idxes THEN Raise(o, "KeyError", 0)
    ELSE Return([o EXCEPT !._used_idxes = DictDel(@, idx),
                          !._available_idxes = @ \cup {idx}], None, 0)

OptimizedCache__delete_key(o, key) ==
    IF key \notin DOMAIN o._data THEN Raise(o, "KeyError", 0)
    ELSE Return([o EXCEPT !._data = DictDel(@, key)], None, 0)

OptimizedCache__replace(o, key, value) ==
    IF randint(0, o._capacity - 1) = {} THEN {Raise(o, "ValueError", 1)}
    ELSE UNION {
        IF random_idx \notin DOMAIN o._used_idxes THEN {Raise(o, "KeyError", 1)}
        ELSE LET random_key == o._used_idxes[random_idx]
                 d1 == OptimizedCache__delete_idx(o, random_idx)
                 d2 == OptimizedCache__delete_key(d1.o, random_key)
             IN IF d1.exc # "none" THEN {Nested(d1, 1)}
                ELSE IF d2.exc # "none" THEN {Nested(d2, 1)}
                ELSE { IF out.exc # "none" THEN Nested(out, 1)
                       ELSE Return([out.o EXCEPT !._replacement_counter = @ + 1],
                                   None, out.nrep + 1)
                       : out \in OptimizedCache_put(d2.o, key, value) }
        : random_idx \in randint(0, o._capacity - 1) }

\* Line 70 rebuilds the pair from self._data[key][0], the old VALUE.
OptimizedCache_put(o, key, value) ==
    IF key \in DOMAIN o._data
    THEN {Return([o EXCEPT !._data = DictSet(@, key, <<value, o._data[key][1]>>)],
                 None, 0)}
    ELSE IF o._available_idxes # {}
    THEN { Return([o EXCEPT !._available_idxes = @ \ {idx},
                            !._data = DictSet(@, key, <<value, idx>>),
                            !._used_idxes = DictSet(@, idx, key)], None, 0)
           : idx \in o._available_idxes }
    ELSE OptimizedCache__replace(o, key, value)

OptimizedCache_get(o, key) ==
    IF key \in DOMAIN o._data THEN {Return(o, o._data[key][1], 0)}
    ELSE {Raise(o, "KeyError", 0)}

OptimizedCache_delete(o, key) ==
    IF key \notin DOMAIN o._data THEN {Raise(o, "KeyError", 0)}
    ELSE LET idx == o._data[key][2]
             d1 == OptimizedCache__delete_key(o, key)
         IN IF d1.exc # "none" THEN {d1}
            ELSE {OptimizedCache__delete_idx(d1.o, idx)}

\* --------------------------------------------------------- OptimizedCache2
\* _data: key -> (value, idx); _available_idxes: a list used as a stack;
\* _used_idxes: a list of capacity entries, a key or None.
OptimizedCache2__init__(capacity) ==
    [cls |-> "OptimizedCache2", _capacity |-> capacity, _data |-> EmptyDict,
     _replacement_counter |-> 0,
     _available_idxes |-> range(capacity),
     _used_idxes |-> [i \in 1..capacity |-> None]]

OptimizedCache2__delete_idx(o, idx) ==
    IF ~ListInRange(o._used_idxes, idx) THEN Raise(o, "IndexError", 0)
    ELSE Return([o EXCEPT !._used_idxes = ListSet(@, idx, None),
                          !._available_idxes = Append(@, idx)], None, 0)

OptimizedCache2__delete_key(o, key) ==
    IF key \notin DOMAIN o._data THEN Raise(o, "KeyError", 0)
    ELSE Return([o EXCEPT !._data = DictDel(@, key)], None, 0)

OptimizedCache2__replace(o, key, value) ==
    IF randint(0, o._capacity - 1) = {} THEN {Raise(o, "ValueError", 1)}
    ELSE UNION {
        IF ~ListInRange(o._used_idxes, random_idx) THEN {Raise(o, "IndexError", 1)}
        ELSE LET random_key == ListGet(o._used_idxes, random_idx)
                 d1 == OptimizedCache2__delete_idx(o, random_idx)
                 d2 == OptimizedCache2__delete_key(d1.o, random_key)
             IN IF d1.exc # "none" THEN {Nested(d1, 1)}
                ELSE IF d2.exc # "none" THEN {Nested(d2, 1)}
                ELSE { IF out.exc # "none" THEN Nested(out, 1)
                       ELSE Return([out.o EXCEPT !._replacement_counter = @ + 1],
                                   None, out.nrep + 1)
                       : out \in OptimizedCache2_put(d2.o, key, value) }
        : random_idx \in randint(0, o._capacity - 1) }

\* Line 113 rebuilds the pair from self._data[key][0], the old VALUE.
OptimizedCache2_put(o, key, value) ==
    IF key \in DOMAIN o._data
    THEN {Return([o EXCEPT !._data = DictSet(@, key, <<value, o._data[key][1]>>)],
                 None, 0)}
    ELSE IF o._available_idxes # << >>
    THEN LET idx == o._available_idxes[Len(o._available_idxes)]
         IN IF ~ListInRange(o._used_idxes, idx)
            THEN {Raise([o EXCEPT !._available_idxes = ListPop(@),
                                  !._data = DictSet(@, key, <<value, idx>>)],
                        "IndexError", 0)}
            ELSE {Return([o EXCEPT !._available_idxes = ListPop(@),
                                   !._data = DictSet(@, key, <<value, idx>>),
                                   !._used_idxes = ListSet(@, idx, key)], None, 0)}
    ELSE OptimizedCache2__replace(o, key, value)

OptimizedCache2_get(o, key) ==
    IF key \in DOMAIN o._data THEN {Return(o, o._data[key][1], 0)}
    ELSE {Raise(o, "KeyError", 0)}

OptimizedCache2_delete(o, key) ==
    IF key \notin DOMAIN o._data THEN {Raise(o, "KeyError", 0)}
    ELSE LET idx == o._data[key][2]
             d1 == OptimizedCache2__delete_key(o, key)
         IN IF d1.exc # "none" THEN {d1}
            ELSE {OptimizedCache2__delete_idx(d1.o, idx)}

\* --------------------------------------------------------- OptimizedCache3
\* _data: a list of capacity pairs (key, value) or (None, None);
\* _available_idxes: a list used as a stack; _used_idxes: key -> idx.
OptimizedCache3__init__(capacity) ==
    [cls |-> "OptimizedCache3", _capacity |-> capacity,
     _data |-> [i \in 1..capacity |-> <<None, None>>],
     _replacement_counter |-> 0,
     _available_idxes |-> range(capacity),
     _used_idxes |-> EmptyDict]

\* OptimizedCache3__delete_idx without the append of line 184: the index is
\* not put back on the free list.
OptimizedCache3__delete_idx_noAppend(o, idx) ==
    IF ~ListInRange(o._data, idx) THEN Raise(o, "IndexError", 0)
    ELSE Return([o EXCEPT !._data = ListSet(@, idx, <<None, None>>)], None, 0)

OptimizedCache3__delete_idx(o, idx) ==
    IF ~ListInRange(o._data, idx) THEN Raise(o, "IndexError", 0)
    ELSE Return([o EXCEPT !._data = ListSet(@, idx, <<None, None>>),
                          !._available_idxes = Append(@, idx)], None, 0)

OptimizedCache3__delete_key(o, key) ==
    IF key \notin DOMAIN o._used_idxes THEN Raise(o, "KeyError", 0)
    ELSE Return([o EXCEPT !._used_idxes = DictDel(@, key)], None, 0)

\* OptimizedCache3__replace without its call of _delete_key: the victim stays
\* in _used_idxes.
OptimizedCache3__replace_keepsKey(o, key, value) ==
    IF randint(0, o._capacity - 1) = {} THEN {Raise(o, "ValueError", 1)}
    ELSE UNION {
        IF ~ListInRange(o._data, random_idx) THEN {Raise(o, "IndexError", 1)}
        ELSE LET d1 == OptimizedCache3__delete_idx(o, random_idx)
             IN IF d1.exc # "none" THEN {Nested(d1, 1)}
                ELSE { IF out.exc # "none" THEN Nested(out, 1)
                       ELSE Return([out.o EXCEPT !._replacement_counter = @ + 1],
                                   None, out.nrep + 1)
                       : out \in OptimizedCache3_put(d1.o, key, value) }
        : random_idx \in randint(0, o._capacity - 1) }

OptimizedCache3__replace(o, key, value) ==
    IF randint(0, o._capacity - 1) = {} THEN {Raise(o, "ValueError", 1)}
    ELSE UNION {
        IF ~ListInRange(o._data, random_idx) THEN {Raise(o, "IndexError", 1)}
        ELSE LET random_key == ListGet(o._data, random_idx)[1]
                 d1 == OptimizedCache3__delete_idx(o, random_idx)
                 d2 == OptimizedCache3__delete_key(d1.o, random_key)
             IN IF d1.exc # "none" THEN {Nested(d1, 1)}
                ELSE IF d2.exc # "none" THEN {Nested(d2, 1)}
                ELSE { IF out.exc # "none" THEN Nested(out, 1)
                       ELSE Return([out.o EXCEPT !._replacement_counter = @ + 1],
                                   None, out.nrep + 1)
                       : out \in OptimizedCache3_put(d2.o, key, value) }
        : random_idx \in randint(0, o._capacity - 1) }

OptimizedCache3_put(o, key, value) ==
    IF key \in DOMAIN o._used_idxes
    THEN IF ~ListInRange(o._data, o._used_idxes[key]) THEN {Raise(o, "IndexError", 0)}
         ELSE {Return([o EXCEPT !._data = ListSet(@, o._used_idxes[key], <<key, value>>)],
                      None, 0)}
    ELSE IF o._available_idxes # << >>
    THEN LET idx == o._available_idxes[Len(o._available_idxes)]
             o1 == [o EXCEPT !._available_idxes = ListPop(@)]
         IN IF ~ListInRange(o._data, idx) THEN {Raise(o1, "IndexError", 0)}
            ELSE {Return([o1 EXCEPT !._data = ListSet(@, idx, <<key, value>>),
                                    !._used_idxes = DictSet(@, key, idx)], None, 0)}
    ELSE OptimizedCache3__replace(o, key, value)

OptimizedCache3_get(o, key) ==
    IF key \notin DOMAIN o._used_idxes THEN {Raise(o, "KeyError", 0)}
    ELSE IF ~ListInRange(o._data, o._used_idxes[key]) THEN {Raise(o, "IndexError", 0)}
    ELSE {Return(o, ListGet(o._data, o._used_idxes[key])[2], 0)}

\* OptimizedCache3_delete dropping every key of _used_idxes, not only line
\* 170's key.
OptimizedCache3_delete_allKeys(o, key) ==
    IF key \notin DOMAIN o._used_idxes THEN {Raise(o, "KeyError", 0)}
    ELSE LET idx == o._used_idxes[key]
             d1 == Return([o EXCEPT !._used_idxes = EmptyDict], None, 0)
         IN {OptimizedCache3__delete_idx(d1.o, idx)}

OptimizedCache3_delete(o, key) ==
    IF key \notin DOMAIN o._used_idxes THEN {Raise(o, "KeyError", 0)}
    ELSE LET idx == o._used_idxes[key]
             d1 == OptimizedCache3__delete_key(o, key)
         IN IF d1.exc # "none" THEN {d1}
            ELSE {OptimizedCache3__delete_idx(d1.o, idx)}

\* ------------------------------------------- the free-index iterator (4, 5)
\* The generator f(capacity) with the one-element generators that _delete_idx
\* chains behind it: i is f's counter, n its bound, tail the chained indices in
\* the order chain() yields them.
f(capacity) == [i |-> 0, n |-> capacity, tail |-> << >>]
chain(g, idx) == [g EXCEPT !.tail = Append(@, idx)]
Exhausted(g) == g.i >= g.n /\ g.tail = << >>
\* next(g) when not exhausted: the index yielded and the iterator afterwards.
nextValue(g) == IF g.i < g.n THEN g.i ELSE Head(g.tail)
nextState(g) == IF g.i < g.n THEN [g EXCEPT !.i = @ + 1] ELSE [g EXCEPT !.tail = Tail(@)]

\* --------------------------------------------------------- OptimizedCache4
\* _data: idx -> (key, value); _available_idxes: the iterator; _used_idxes:
\* key -> idx.
OptimizedCache4__init__(capacity) ==
    [cls |-> "OptimizedCache4", _capacity |-> capacity, _data |-> EmptyDict,
     _replacement_counter |-> 0,
     _available_idxes |-> f(capacity),
     _used_idxes |-> EmptyDict]

\* OptimizedCache4__delete_idx without the chain of line 236: the index is not
\* handed back to the iterator.
OptimizedCache4__delete_idx_noChain(o, idx) ==
    IF idx \notin DOMAIN o._data THEN Raise(o, "KeyError", 0)
    ELSE Return([o EXCEPT !._data = DictDel(@, idx)], None, 0)

OptimizedCache4__delete_idx(o, idx) ==
    IF idx \notin DOMAIN o._data THEN Raise(o, "KeyError", 0)
    ELSE Return([o EXCEPT !._data = DictDel(@, idx),
                          !._available_idxes = chain(@, idx)], None, 0)

OptimizedCache4__delete_key(o, key) ==
    IF key \notin DOMAIN o._used_idxes THEN Raise(o, "KeyError", 0)
    ELSE Return([o EXCEPT !._used_idxes = DictDel(@, key)], None, 0)

\* OptimizedCache4__replace whose _delete_idx does not hand the index back:
\* the put it makes finds the iterator exhausted again.
OptimizedCache4__replace_noChain(o, key, value) ==
    IF randint(0, o._capacity - 1) = {} THEN {Raise(o, "ValueError", 1)}
    ELSE UNION {
        IF random_idx \notin DOMAIN o._data THEN {Raise(o, "KeyError", 1)}
        ELSE LET random_key == o._data[random_idx][1]
                 d1 == OptimizedCache4__delete_idx_noChain(o, random_idx)
                 d2 == OptimizedCache4__delete_key(d1.o, random_key)
             IN IF d1.exc # "none" THEN {Nested(d1, 1)}
                ELSE IF d2.exc # "none" THEN {Nested(d2, 1)}
                ELSE { IF out.exc # "none" THEN Nested(out, 1)
                       ELSE Return([out.o EXCEPT !._replacement_counter = @ + 1],
                                   None, out.nrep + 1)
                       : out \in OptimizedCache4_put(d2.o, key, value) }
        : random_idx \in randint(0, o._capacity - 1) }

OptimizedCache4__replace(o, key, value) ==
    IF randint(0, o._capacity - 1) = {} THEN {Raise(o, "ValueError", 1)}
    ELSE UNION {
        IF random_idx \notin DOMAIN o._data THEN {Raise(o, "KeyError", 1)}
        ELSE LET random_key == o._data[random_idx][1]
                 d1 == OptimizedCache4__delete_idx(o, random_idx)
                 d2 == OptimizedCache4__delete_key(d1.o, random_key)
             IN IF d1.exc # "none" THEN {Nested(d1, 1)}
                ELSE IF d2.exc # "none" THEN {Nested(d2, 1)}
                ELSE { IF out.exc # "none" THEN Nested(out, 1)
                       ELSE Return([out.o EXCEPT !._replacement_counter = @ + 1],
                                   None, out.nrep + 1)
                       : out \in OptimizedCache4_put(d2.o, key, value) }
        : random_idx \in randint(0, o._capacity - 1) }

\* The bare except: sends every exception of the try body to _replace.
OptimizedCache4_put(o, key, value) ==
    IF key \in DOMAIN o._used_idxes
    THEN {Return([o EXCEPT !._data = DictSet(@, o._used_idxes[key], <<key, value>>)],
                 None, 0)}
    ELSE IF Exhausted(o._available_idxes)
    THEN OptimizedCache4__replace(o, key, value)
    ELSE LET idx == nextValue(o._available_idxes)
         IN {Return([o EXCEPT !._available_idxes = nextState(@),
                              !._data = DictSet(@, idx, <<key, value>>),
                              !._used_idxes = DictSet(@, key, idx)], None, 0)}

OptimizedCache4_get(o, key) ==
    IF key \notin DOMAIN o._used_idxes THEN {Raise(o, "KeyError", 0)}
    ELSE IF o._used_idxes[key] \notin DOMAIN o._data THEN {Raise(o, "KeyError", 0)}
    ELSE {Return(o, o._data[o._used_idxes[key]][2], 0)}

\* OptimizedCache4_delete without line 223: the slot keeps its pair.
OptimizedCache4_delete_keepsSlot(o, key) ==
    IF key \notin DOMAIN o._used_idxes THEN {Raise(o, "KeyError", 0)}
    ELSE {OptimizedCache4__delete_key(o, key)}

OptimizedCache4_delete(o, key) ==
    IF key \notin DOMAIN o._used_idxes THEN {Raise(o, "KeyError", 0)}
    ELSE LET idx == o._used_idxes[key]
             d1 == OptimizedCache4__delete_key(o, key)
         IN IF d1.exc # "none" THEN {d1}
            ELSE {OptimizedCache4__delete_idx(d1.o, idx)}

\* --------------------------------------------------------- OptimizedCache5
\* _data: a list of capacity pairs; _available_idxes: the iterator;
\* _used_idxes: key -> idx.
OptimizedCache5__init__(capacity) ==
    [cls |-> "OptimizedCache5", _capacity |-> capacity,
     _data |-> [i \in 1..capacity |-> <<None, None>>],
     _replacement_counter |-> 0,
     _available_idxes |-> f(capacity),
     _used_idxes |-> EmptyDict]

\* OptimizedCache5__delete_idx without the chain(): the slot is cleared but
\* never handed out again.
OptimizedCache5__delete_idx_noChain(o, idx) ==
    IF ~ListInRange(o._data, idx) THEN Raise(o, "IndexError", 0)
    ELSE Return([o EXCEPT !._data = ListSet(@, idx, <<None, None>>)], None, 0)

OptimizedCache5__delete_idx(o, idx) ==
    IF ~ListInRange(o._data, idx) THEN Raise(o, "IndexError", 0)
    ELSE Return([o EXCEPT !._data = ListSet(@, idx, <<None, None>>),
                          !._available_idxes = chain(@, idx)], None, 0)

OptimizedCache5__delete_key(o, key) ==
    IF key \notin DOMAIN o._used_idxes THEN Raise(o, "KeyError", 0)
    ELSE Return([o EXCEPT !._used_idxes = DictDel(@, key)], None, 0)

OptimizedCache5__replace(o, key, value) ==
    IF randint(0, o._capacity - 1) = {} THEN {Raise(o, "ValueError", 1)}
    ELSE UNION {
        IF ~ListInRange(o._data, random_idx) THEN {Raise(o, "IndexError", 1)}
        ELSE LET random_key == ListGet(o._data, random_idx)[1]
                 d1 == OptimizedCache5__delete_idx(o, random_idx)
                 d2 == OptimizedCache5__delete_key(d1.o, random_key)
             IN IF d1.exc # "none" THEN {Nested(d1, 1)}
                ELSE IF d2.exc # "none" THEN {Nested(d2, 1)}
                ELSE { IF out.exc # "none" THEN Nested(out, 1)
                       ELSE Return([out.o EXCEPT !._replacement_counter = @ + 1],
                                   None, out.nrep + 1)
                       : out \in OptimizedCache5_put(d2.o, key, value) }
        : random_idx \in randint(0, o._capacity - 1) }

\* OptimizedCache5_put without line 266: the pair is stored but the key is not
\* bound to the slot.
OptimizedCache5_put_noBind(o, key, value) ==
    IF key \in DOMAIN o._used_idxes
    THEN IF ~ListInRange(o._data, o._used_idxes[key]) THEN {Raise(o, "IndexError", 0)}
         ELSE {Return([o EXCEPT !._data = ListSet(@, o._used_idxes[key], <<key, value>>)],
                      None, 0)}
    ELSE IF Exhausted(o._available_idxes)
    THEN OptimizedCache5__replace(o, key, value)
    ELSE LET idx == nextValue(o._available_idxes)
             o1 == [o EXCEPT !._available_idxes = nextState(@)]
         IN IF ~ListInRange(o._data, idx)
            THEN OptimizedCache5__replace(o1, key, value)
            ELSE {Return([o1 EXCEPT !._data = ListSet(@, idx, <<key, value>>)], None, 0)}

\* The bare except: sends every exception of the try body to _replace, with
\* the iterator already advanced when it was the list store that raised.
OptimizedCache5_put(o, key, value) ==
    IF key \in DOMAIN o._used_idxes
    THEN IF ~ListInRange(o._data, o._used_idxes[key]) THEN {Raise(o, "IndexError", 0)}
         ELSE {Return([o EXCEPT !._data = ListSet(@, o._used_idxes[key], <<key, value>>)],
                      None, 0)}
    ELSE IF Exhausted(o._available_idxes)
    THEN OptimizedCache5__replace(o, key, value)
    ELSE LET idx == nextValue(o._available_idxes)
             o1 == [o EXCEPT !._available_idxes = nextState(@)]
         IN IF ~ListInRange(o._data, idx)
            THEN OptimizedCache5__replace(o1, key, value)
            ELSE {Return([o1 EXCEPT !._data = ListSet(@, idx, <<key, value>>),
                                    !._used_idxes = DictSet(@, key, idx)], None, 0)}

OptimizedCache5_get(o, key) ==
    IF key \notin DOMAIN o._used_idxes THEN {Raise(o, "KeyError", 0)}
    ELSE IF ~ListInRange(o._data, o._used_idxes[key]) THEN {Raise(o, "IndexError", 0)}
    ELSE {Return(o, ListGet(o._data, o._used_idxes[key])[2], 0)}

OptimizedCache5_delete(o, key) ==
    IF key \notin DOMAIN o._used_idxes THEN {Raise(o, "KeyError", 0)}
    ELSE LET idx == o._used_idxes[key]
             d1 == OptimizedCache5__delete_key(o, key)
         IN IF d1.exc # "none" THEN {d1}
            ELSE {OptimizedCache5__delete_idx(d1.o, idx)}

\* -------------------------------------------------------- OptimizedCacheMB
\* _data: key -> (value, pos) as <<value, pos>>; _data_list: the list of keys.
OptimizedCacheMB__init__(capacity) ==
    [cls |-> "OptimizedCacheMB", _capacity |-> capacity, _data |-> EmptyDict,
     _data_list |-> << >>, _replacement_counter |-> 0]

\* OptimizedCacheMB__replace without line 330: the eviction is not counted.
OptimizedCacheMB__replace_noCount(o, key, value) ==
    IF randint(0, o._capacity - 1) = {} THEN {Raise(o, "ValueError", 1)}
    ELSE {
        IF ~ListInRange(o._data_list, random_idx) THEN Raise(o, "IndexError", 1)
        ELSE LET random_key == ListGet(o._data_list, random_idx)
             IN IF random_key \notin DOMAIN o._data THEN Raise(o, "KeyError", 1)
                ELSE LET pos == o._data[random_key][2]
                     IN Return([o EXCEPT
                                  !._data = DictSet(DictDel(@, random_key), key, <<value, pos>>),
                                  !._data_list = ListSet(@, random_idx, key)], None, 1)
        : random_idx \in randint(0, o._capacity - 1) }

OptimizedCacheMB__replace(o, key, value) ==
    IF randint(0, o._capacity - 1) = {} THEN {Raise(o, "ValueError", 1)}
    ELSE {
        IF ~ListInRange(o._data_list, random_idx) THEN Raise(o, "IndexError", 1)
        ELSE LET random_key == ListGet(o._data_list, random_idx)
             IN IF random_key \notin DOMAIN o._data THEN Raise(o, "KeyError", 1)
                ELSE LET pos == o._data[random_key][2]
                     IN Return([o EXCEPT
                                  !._data = DictSet(DictDel(@, random_key), key, <<value, pos>>),
                                  !._data_list = ListSet(@, random_idx, key),
                                  !._replacement_counter = @ + 1], None, 1)
        : random_idx \in randint(0, o._capacity - 1) }

OptimizedCacheMB_put(o, key, value) ==
    IF key \in DOMAIN o._data
    THEN {Return([o EXCEPT !._data = DictSet(@, key, <<value, o._data[key][2]>>)],
                 None, 0)}
    ELSE IF Cardinality(DOMAIN o._data) = o._capacity
    THEN OptimizedCacheMB__replace(o, key, value)
    ELSE {Return([o EXCEPT !._data = DictSet(@, key, <<value, Len(o._data_list)>>),
                           !._data_list = Append(@, key)], None, 0)}

\* OptimizedCacheMB_get writing position 0 into the pair of the key it reads.
OptimizedCacheMB_get_moves(o, key) ==
    IF key \in DOMAIN o._data
    THEN {Return([o EXCEPT !._data = DictSet(@, key, <<o._data[key][1], 0>>)],
                 o._data[key][1], 0)}
    ELSE {Raise(o, "KeyError", 0)}

OptimizedCacheMB_get(o, key) ==
    IF key \in DOMAIN o._data THEN {Return(o, o._data[key][1], 0)}
    ELSE {Raise(o, "KeyError", 0)}

\* OptimizedCacheMB_delete without line 321: the key moved into pos keeps the
\* position it had at the end of the list.
OptimizedCacheMB_delete_noFix(o, key) ==
    IF key \notin DOMAIN o._data THEN {Raise(o, "KeyError", 0)}
    ELSE LET pos == o._data[key][2]
             o1 == [o EXCEPT !._data = DictDel(@, key)]
         IN IF o1._data_list = << >> \/ ~ListInRange(o1._data_list, pos)
            THEN {Raise(o1, "IndexError", 0)}
            ELSE LET o2 == [o1 EXCEPT !._data_list = ListSet(@, pos, ListGet(@, -1))]
                     o3 == [o2 EXCEPT !._data_list = ListPop(@)]
                 IN {Return(o3, None, 0)}

\* Lines 317-321, statement by statement: o1 after del, o2 after the copy of
\* the last key into pos, o3 after pop(); line 321 then reads _data_list[pos].
OptimizedCacheMB_delete(o, key) ==
    IF key \notin DOMAIN o._data THEN {Raise(o, "KeyError", 0)}
    ELSE LET pos == o._data[key][2]
             o1 == [o EXCEPT !._data = DictDel(@, key)]
         IN IF o1._data_list = << >> \/ ~ListInRange(o1._data_list, pos)
            THEN {Raise(o1, "IndexError", 0)}
            ELSE LET o2 == [o1 EXCEPT !._data_list = ListSet(@, pos, ListGet(@, -1))]
                     o3 == [o2 EXCEPT !._data_list = ListPop(@)]
                 IN IF ~ListInRange(o3._data_list, pos) THEN {Raise(o3, "IndexError", 0)}
                    ELSE LET moved == ListGet(o3._data_list, pos)
                         IN IF moved \notin DOMAIN o3._data THEN {Raise(o3, "KeyError", 0)}
                            ELSE {Return([o3 EXCEPT !._data =
                                            DictSet(@, moved, <<o3._data[moved][1], pos>>)],
                                         None, 0)}

\* ------------------------------------------------- dispatch on the class
__init__(cls, capacity) ==
    CASE cls = "SimpleCache" -> SimpleCache__init__(capacity)
      [] cls = "OptimizedCache" -> OptimizedCache__init__(capacity)
      [] cls = "OptimizedCache2" -> OptimizedCache2__init__(capacity)
      [] cls = "OptimizedCache3" -> OptimizedCache3__init__(capacity)
      [] cls = "OptimizedCache4" -> OptimizedCache4__init__(capacity)
      [] cls = "OptimizedCache5" -> OptimizedCache5__init__(capacity)
      [] cls = "OptimizedCacheMB" -> OptimizedCacheMB__init__(capacity)

put(o, key, value) ==
    CASE o.cls = "SimpleCache" -> SimpleCache_put(o, key, value)
      [] o.cls = "OptimizedCache" -> OptimizedCache_put(o, key, value)
      [] o.cls = "OptimizedCache2" -> OptimizedCache2_put(o, key, value)
      [] o.cls = "OptimizedCache3" -> OptimizedCache3_put(o, key, value)
      [] o.cls = "OptimizedCache4" -> OptimizedCache4_put(o, key, value)
      [] o.cls = "OptimizedCache5" -> OptimizedCache5_put(o, key, value)
      [] o.cls = "OptimizedCacheMB" -> OptimizedCacheMB_put(o, key, value)

get(o, key) ==
    CASE o.cls = "SimpleCache" -> SimpleCache_get(o, key)
      [] o.cls = "OptimizedCache" -> OptimizedCache_get(o, key)
      [] o.cls = "OptimizedCache2" -> OptimizedCache2_get(o, key)
      [] o.cls = "OptimizedCache3" -> OptimizedCache3_get(o, key)
      [] o.cls = "OptimizedCache4" -> OptimizedCache4_get(o, key)
      [] o.cls = "OptimizedCache5" -> OptimizedCache5_get(o, key)
      [] o.cls = "OptimizedCacheMB" -> OptimizedCacheMB_get(o, key)

delete(o, key) ==
    CASE o.cls = "SimpleCache" -> SimpleCache_delete(o, key)
      [] o.cls = "OptimizedCache" -> OptimizedCache_delete(o, key)
      [] o.cls = "OptimizedCache2" -> OptimizedCache2_delete(o, key)
      [] o.cls = "OptimizedCache3" -> OptimizedCache3_delete(o, key)
      [] o.cls = "OptimizedCache4" -> OptimizedCache4_delete(o, key)
      [] o.cls = "OptimizedCache5" -> OptimizedCache5_delete(o, key)
      [] o.cls = "OptimizedCacheMB" -> OptimizedCacheMB_delete(o, key)

\* ------------------------------------------------------------ observations
Constructed(o) == o.cls # "none"

\* The keys for which get succeeds, and what get returns for them.
IsLive(o, k) == \E out \in get(o, k) : out.exc = "none"
Live(o) == {k \in Keys : IsLive(o, k)}
Value(o, k) == (CHOOSE out \in get(o, k) : TRUE).ret

\* The store is full when no free slot is left: what each put tests before it
\* calls _replace.
Full(o) ==
    CASE o.cls = "SimpleCache" -> Len(o._data) = o._capacity
      [] o.cls = "OptimizedCache" -> o._available_idxes = {}
      [] o.cls \in {"OptimizedCache2", "OptimizedCache3"} -> o._available_idxes = << >>
      [] o.cls \in {"OptimizedCache4", "OptimizedCache5"} -> Exhausted(o._available_idxes)
      [] o.cls = "OptimizedCacheMB" -> Cardinality(DOMAIN o._data) = o._capacity

\* ----------------------------------------------------------- state machine
\* self is the cache object.  last is the last call made on it: method,
\* arguments, exception raised, value returned, calls of _replace, whether the
\* call found the store full, and (for a put) what the call before it was:
\* "put" a put of the same key, "delete" a delete that returned and had found
\* the store full, "other" anything else.
NoObject == [cls |-> "none"]
NoCall == [op |-> "none", key |-> None, value |-> None, exc |-> "none",
           ret |-> None, nrep |-> 0, full |-> FALSE, after |-> "other"]
Call(op, key, value, out, full, after) ==
    [op |-> op, key |-> key, value |-> value, exc |-> out.exc, ret |-> out.ret,
     nrep |-> out.nrep, full |-> full, after |-> after]
After(call, key) ==
    IF call.op = "put" /\ call.key = key THEN "put"
    ELSE IF call.op = "delete" /\ call.exc = "none" /\ call.full THEN "delete"
    ELSE "other"

Init ==
    /\ self = NoObject
    /\ last = NoCall

Construct(cls, capacity) ==
    /\ ~Constructed(self)
    /\ self' = __init__(cls, capacity)
    /\ last' = Call("__init__", None, capacity, Return(self, None, 0), FALSE, "other")

Put(key, value) ==
    /\ Constructed(self)
    /\ self._replacement_counter < MaxRepl
    /\ \E out \in put(self, key, value) :
          /\ self' = out.o
          /\ last' = Call("put", key, value, out, Full(self), After(last, key))

Get(key) ==
    /\ Constructed(self)
    /\ \E out \in get(self, key) :
          /\ self' = out.o
          /\ last' = Call("get", key, None, out, Full(self), "other")

Delete(key) ==
    /\ Constructed(self)
    /\ \E out \in delete(self, key) :
          /\ self' = out.o
          /\ last' = Call("delete", key, None, out, Full(self), "other")

\* Every class, every capacity from -MaxNeg to MaxCap.
Next ==
    \/ \E cls \in Classes, capacity \in Capacities : Construct(cls, capacity)
    \/ \E key \in Keys, value \in Values : Put(key, value)
    \/ \E key \in Keys : Get(key)
    \/ \E key \in Keys : Delete(key)

Spec == Init /\ [][Next]_vars

\* The classes other than OptimizedCache and OptimizedCache2, capacity >= 1.
CoreClasses == {"SimpleCache", "OptimizedCache3", "OptimizedCache4",
                "OptimizedCache5", "OptimizedCacheMB"}

NextCore ==
    \/ \E cls \in CoreClasses, capacity \in 1..MaxCap : Construct(cls, capacity)
    \/ \E key \in Keys, value \in Values : Put(key, value)
    \/ \E key \in Keys : Get(key)
    \/ \E key \in Keys : Delete(key)

SpecCore == Init /\ [][NextCore]_vars

\* ------------------------------------------------------------------ claims
Range(fn) == {fn[x] : x \in DOMAIN fn}
Counter(o) == o._replacement_counter
\* What the caller can read of the cache: the pairs <<k, v>> with get(k) = v.
Contents(o) ==
    UNION { {<<k, out.ret>> : out \in {x \in get(o, k) : x.exc = "none"}} : k \in Keys }
KeysOf(c) == {p[1] : p \in c}
\* The contents b hold no key of the contents a with another value.
Agree(a, b) == \A p \in a : \A q \in b : p[1] = q[1] => p[2] = q[2]

\* C1: with capacity N >= 1, after any sequence of put, get and delete calls,
\* raising ones included, at most N keys are live (get succeeds for at most N).
C1_CapacityBound ==
    (Constructed(self) /\ self._capacity >= 1)
        => Cardinality(Live(self)) <= self._capacity

\* C2: in OptimizedCache and OptimizedCache2 a put on a bound key whose recorded
\* slot idx holds that key (_used_idxes[idx] = key) leaves the recorded idx as
\* it was.
SlotHolds(o, idx, key) ==
    IF o.cls = "OptimizedCache"
    THEN idx \in DOMAIN o._used_idxes /\ o._used_idxes[idx] = key
    ELSE ListInRange(o._used_idxes, idx) /\ ListGet(o._used_idxes, idx) = key
C2_OverwriteKeepsSlot ==
    [][\A k \in Keys :
        (/\ Constructed(self)
         /\ self.cls \in {"OptimizedCache", "OptimizedCache2"}
         /\ last'.op = "put" /\ last'.key = k
         /\ k \in DOMAIN self._data
         /\ SlotHolds(self, self._data[k][2], k))
        => (/\ k \in DOMAIN self'._data
            /\ self'._data[k][2] = self._data[k][2]
            /\ self'._data[k][1] = last'.value)]_vars

\* C3: in OptimizedCacheMB delete(k) of a bound key returns without raising,
\* get(k) fails afterwards, and every other bound key keeps its value.
C3_DeleteBoundKeyReturns ==
    [][\A k \in Keys :
        (/\ Constructed(self)
         /\ self.cls = "OptimizedCacheMB"
         /\ last'.op = "delete" /\ last'.key = k
         /\ IsLive(self, k))
        => \A a \in {Contents(self)} : \A b \in {Contents(self')} :
              /\ last'.exc = "none"
              /\ k \notin KeysOf(b)
              /\ b = {p \in a : p[1] # k}]_vars

\* C4: no cache object with capacity <= 0 is ever constructed.
C4_CapacityPositive ==
    Constructed(self) => self._capacity >= 1

\* C5: get(k) and delete(k) of a key that is not bound raise KeyError and leave
\* the object (keys, values, free slots, replacement counter) as it was.
C5_AbsentKeyRaisesAndKeeps ==
    [][\A k \in Keys :
        (/\ Constructed(self)
         /\ last'.op \in {"get", "delete"} /\ last'.key = k
         /\ ~IsLive(self, k))
        => (last'.exc = "KeyError" /\ self' = self)]_vars

C5_Witness ==
    /\ Constructed(self)
    /\ last.op = "delete" /\ last.exc = "KeyError"
    /\ Counter(self) >= 1

C7_EvictionConservesOccupancy ==
    [][\A k \in Keys :
        (/\ Constructed(self)
         /\ last'.op = "put" /\ last'.key = k
         /\ last'.nrep >= 1
         /\ ~IsLive(self, k))
        => \A a \in {Contents(self)} : \A b \in {Contents(self')} :
              /\ last'.exc = "none"
              /\ Cardinality(KeysOf(a) \ KeysOf(b)) = 1
              /\ Agree(a, b)
              /\ <<k, last'.value>> \in b
              /\ Cardinality(b) = self._capacity]_vars

C7_Witness ==
    /\ Constructed(self)
    /\ last.op = "put" /\ last.exc = "none" /\ last.nrep >= 1
    /\ self._capacity = 2
    /\ Cardinality(Live(self)) = 2

\* C8: in OptimizedCache3/4/5, when delete(k) of a bound key found the store
\* full, the put(k2, v) of a new key that follows takes the slot the delete
\* released and evicts nothing: no _replace, the counter as it was, every key
\* live after the delete still live with its value.
FreeSlots(o) == (0..(o._capacity - 1)) \ Range(o._used_idxes)
C8_DeleteThenPutReusesSlot ==
    [][\A k2 \in Keys :
        (/\ Constructed(self)
         /\ self.cls \in {"OptimizedCache3", "OptimizedCache4", "OptimizedCache5"}
         /\ last.op = "delete" /\ last.exc = "none" /\ last.full
         /\ last'.op = "put" /\ last'.key = k2
         /\ ~IsLive(self, k2))
        => \A a \in {Contents(self)} : \A b \in {Contents(self')} :
              /\ last'.exc = "none" /\ last'.nrep = 0
              /\ Counter(self') = Counter(self)
              /\ a \subseteq b
              /\ FreeSlots(self) = {self'._used_idxes[k2]}]_vars

C8_Witness ==
    /\ Constructed(self)
    /\ self.cls \in {"OptimizedCache3", "OptimizedCache4", "OptimizedCache5"}
    /\ last.op = "put" /\ last.exc = "none" /\ last.after = "delete"
    /\ Counter(self) >= 1
    /\ Cardinality(Live(self)) = self._capacity

\* C9: in OptimizedCache5 with capacity N >= 1, once put(k, v) has returned,
\* get(k) returns v.
C9_GetAfterPut ==
    (/\ Constructed(self)
     /\ self.cls = "OptimizedCache5"
     /\ last.op = "put" /\ last.exc = "none")
    => (IsLive(self, last.key) /\ Value(self, last.key) = last.value)

C9_Witness ==
    /\ Constructed(self)
    /\ self.cls = "OptimizedCache5"
    /\ last.op = "put" /\ last.exc = "none" /\ last.nrep = 1
    /\ Counter(self) = 2
    /\ self._available_idxes.i = self._capacity

\* C10: put(k, v1) then put(k, v2), nothing in between: the second call leaves
\* the replacement counter and the set of live keys as the first call left
\* them, and get(k) returns v2.
C10_OverwriteEvictionFree ==
    [][\A k \in Keys :
        (/\ Constructed(self)
         /\ last.op = "put" /\ last.key = k
         /\ last'.op = "put" /\ last'.key = k)
        => (/\ Counter(self') = Counter(self)
            /\ Live(self') = Live(self)
            /\ IsLive(self', k) /\ Value(self', k) = last'.value)]_vars

C12_GetChangesNothing ==
    [][(Constructed(self) /\ last'.op = "get")
        => (self' = self /\ last'.nrep = 0)]_vars

C12_Witness ==
    /\ Constructed(self)
    /\ self.cls = "OptimizedCache4"
    /\ last.op = "get" /\ last.exc = "none" /\ last.full
    /\ Counter(self) = 1

\* C13: in OptimizedCache4 and OptimizedCache5 with capacity N >= 1, put calls
\* _replace only when the iterator of free indices is exhausted; the iterator
\* is exhausted exactly when each index of [0, N) holds the pair of a key
\* that _used_idxes maps to that index, so the pair _replace reads at the index
\* it draws has a bound key; and every put returns.
PairAt(o, idx) ==
    IF o.cls = "OptimizedCache4"
    THEN (IF idx \in DOMAIN o._data THEN o._data[idx] ELSE <<None, None>>)
    ELSE (IF ListInRange(o._data, idx) THEN ListGet(o._data, idx) ELSE <<None, None>>)
HoldsLive(o, idx) ==
    PairAt(o, idx)[1] \in DOMAIN o._used_idxes /\ o._used_idxes[PairAt(o, idx)[1]] = idx
ExhaustedIffAllLive(o) ==
    Exhausted(o._available_idxes) <=> \A idx \in 0..(o._capacity - 1) : HoldsLive(o, idx)
C13_ReplaceOnlyWhenExhausted ==
    [][(Constructed(self) /\ self.cls \in {"OptimizedCache4", "OptimizedCache5"})
        => /\ ExhaustedIffAllLive(self) /\ ExhaustedIffAllLive(self')
           /\ last'.op = "put"
                 => /\ last'.exc = "none"
                    /\ last'.nrep >= 1 => Exhausted(self._available_idxes)]_vars

C13_Witness ==
    /\ Constructed(self)
    /\ self.cls = "OptimizedCache4"
    /\ self._capacity = 2
    /\ last.op = "put" /\ last.exc = "none" /\ last.nrep = 1
    /\ Counter(self) = 2
    /\ Exhausted(self._available_idxes)

\* C14: in OptimizedCacheMB, after any calls of put and delete, a delete that
\* raises included, _data_list is as long as _data has keys, holds no key
\* twice, and the position stored in _data for the key at position p is p.
C14_ListMatchesDict ==
    (Constructed(self) /\ self.cls = "OptimizedCacheMB")
    => /\ Len(self._data_list) = Cardinality(DOMAIN self._data)
       /\ \A p, q \in 0..(Len(self._data_list) - 1) :
              p # q => ListGet(self._data_list, p) # ListGet(self._data_list, q)
       /\ \A p \in 0..(Len(self._data_list) - 1) :
              /\ ListGet(self._data_list, p) \in DOMAIN self._data
              /\ self._data[ListGet(self._data_list, p)][2] = p

C14_Witness ==
    /\ Constructed(self)
    /\ self.cls = "OptimizedCacheMB"
    /\ last.op = "delete" /\ last.exc = "IndexError"
    /\ Len(self._data_list) = 1
    /\ Counter(self) = 0

\* C15: in OptimizedCache3, 4 and 5 every key of _used_idxes maps to a slot
\* whose pair has that key, two keys never map to one slot, and as many slots
\* are occupied as _used_idxes has keys.
Occupied(o) ==
    IF o.cls = "OptimizedCache4" THEN DOMAIN o._data
    ELSE {idx \in 0..(Len(o._data) - 1) : ListGet(o._data, idx) # <<None, None>>}
C15_KeyIndexMatchesSlots ==
    (Constructed(self)
     /\ self.cls \in {"OptimizedCache3", "OptimizedCache4", "OptimizedCache5"})
    => /\ \A k \in DOMAIN self._used_idxes :
              /\ self._used_idxes[k] \in Occupied(self)
              /\ PairAt(self, self._used_idxes[k])[1] = k
       /\ \A k1, k2 \in DOMAIN self._used_idxes :
              k1 # k2 => self._used_idxes[k1] # self._used_idxes[k2]
       /\ Cardinality(Occupied(self)) = Cardinality(DOMAIN self._used_idxes)

C15_Witness ==
    /\ Constructed(self)
    /\ self.cls = "OptimizedCache3"
    /\ last.op = "delete" /\ last.exc = "none"
    /\ Counter(self) = 1
    /\ Cardinality(DOMAIN self._used_idxes) = 1
    /\ Cardinality(Occupied(self)) = 1

\* C16: in OptimizedCache3, between calls, the free list _available_idxes and
\* the slots _used_idxes maps to split [0, capacity): no index is twice in the
\* free list, none is both free and bound, and each is one or the other.
C16_FreeAndBoundPartition ==
    (Constructed(self) /\ self.cls = "OptimizedCache3")
    => /\ \A i, j \in 1..Len(self._available_idxes) :
              i # j => self._available_idxes[i] # self._available_idxes[j]
       /\ Range(self._available_idxes) \cap Range(self._used_idxes) = {}
       /\ Range(self._available_idxes) \cup Range(self._used_idxes)
              = 0..(self._capacity - 1)

C16_Witness ==
    /\ Constructed(self)
    /\ self.cls = "OptimizedCache3"
    /\ self._capacity = 2
    /\ last.op = "delete" /\ last.exc = "none"
    /\ Counter(self) = 2
    /\ Len(self._available_idxes) = 1

\* C17: in SimpleCache, OptimizedCache3, OptimizedCache5 and OptimizedCacheMB
\* with capacity N >= 1, whenever a put runs _replace, the N indices
\* randint(0, N - 1) can draw give N outcomes, each with one victim, and the
\* victims are the keys live before the call, each once.
C17_DrawToVictimBijection ==
    [][(/\ Constructed(self)
        /\ self.cls \in {"SimpleCache", "OptimizedCache3", "OptimizedCache5",
                         "OptimizedCacheMB"}
        /\ last'.op = "put" /\ last'.nrep >= 1)
        => \A outs \in {put(self, last'.key, last'.value)} :
           \A live \in {Live(self)} :
              /\ Cardinality(randint(0, self._capacity - 1)) = self._capacity
              /\ Cardinality(outs) = self._capacity
              /\ Cardinality(live) = self._capacity
              /\ \A out \in outs : out.exc = "none"
              /\ {live \ Live(out.o) : out \in outs} = {{k} : k \in live}]_vars

C17_Witness ==
    /\ Constructed(self)
    /\ self.cls = "SimpleCache"
    /\ self._capacity = 2
    /\ last.op = "put" /\ last.exc = "none" /\ last.nrep = 1
    /\ Counter(self) = 2
    /\ ~IsLive(self, 1)

\* C18: in SimpleCache and OptimizedCache3, 4 and 5 with capacity N >= 1 every
\* put returns after at most one call of _replace: the put that _replace makes
\* inserts the key (not live before, live with its value after) and does not
\* call _replace again.
C18_AtMostOneNestedPut ==
    [][(/\ Constructed(self)
        /\ self.cls \in {"SimpleCache", "OptimizedCache3", "OptimizedCache4",
                         "OptimizedCache5"}
        /\ last'.op = "put")
        => /\ last'.exc = "none"
           /\ last'.nrep <= 1
           /\ last'.nrep = 1
                 => /\ ~IsLive(self, last'.key)
                    /\ IsLive(self', last'.key)
                    /\ Value(self', last'.key) = last'.value
                    /\ \A out \in put(self, last'.key, last'.value) : out.nrep = 1]_vars

C18_Witness ==
    /\ Constructed(self)
    /\ self.cls = "OptimizedCache3"
    /\ self._capacity = 1
    /\ last.op = "put" /\ last.exc = "none" /\ last.nrep = 1
    /\ Counter(self) = 2

\* ------------------------------------- several caches under the same calls
\* The block under __main__ builds one cache of each class with the same
\* capacity and sends each the same calls.  Here self holds the three caches
\* simple_c, optimized3_c and optimized5_c; each call is made on all three,
\* and each takes an outcome with the observation obs: the exception, the
\* value returned, and afterwards what get returns for every key and the
\* replacement counter.
Observation(out) == <<out.exc, out.ret, Contents(out.o), Counter(out.o)>>
Observations(outs) == {Observation(out) : out \in outs}
IsSame(o) == o.cls = "same"
Matching(outs, obs) == {out.o : out \in {x \in outs : Observation(x) = obs}}
AllTake(outs1, outs3, outs5, obs) ==
    \E o1 \in Matching(outs1, obs) :
    \E o3 \in Matching(outs3, obs) :
    \E o5 \in Matching(outs5, obs) :
        self' = [cls |-> "same", simple_c |-> o1, optimized3_c |-> o3,
                 optimized5_c |-> o5]

ConstructSame(capacity) ==
    /\ ~Constructed(self)
    /\ self' = [cls |-> "same",
                simple_c |-> __init__("SimpleCache", capacity),
                optimized3_c |-> __init__("OptimizedCache3", capacity),
                optimized5_c |-> __init__("OptimizedCache5", capacity)]
    /\ last' = Call("__init__", None, capacity, Return(self, None, 0), FALSE, "other")

PutSame(key, value) ==
    /\ IsSame(self)
    /\ self.simple_c._replacement_counter < MaxRepl
    /\ \E out \in put(self.simple_c, key, value) :
          /\ AllTake(put(self.simple_c, key, value), put(self.optimized3_c, key, value),
                     put(self.optimized5_c, key, value), Observation(out))
          /\ last' = Call("put", key, value, out, Full(self.simple_c), After(last, key))

GetSame(key) ==
    /\ IsSame(self)
    /\ \E out \in get(self.simple_c, key) :
          /\ AllTake(get(self.simple_c, key), get(self.optimized3_c, key),
                     get(self.optimized5_c, key), Observation(out))
          /\ last' = Call("get", key, None, out, Full(self.simple_c), "other")

DeleteSame(key) ==
    /\ IsSame(self)
    /\ \E out \in delete(self.simple_c, key) :
          /\ AllTake(delete(self.simple_c, key), delete(self.optimized3_c, key),
                     delete(self.optimized5_c, key), Observation(out))
          /\ last' = Call("delete", key, None, out, Full(self.simple_c), "other")

NextSame ==
    \/ \E capacity \in Capacities : ConstructSame(capacity)
    \/ \E key \in Keys, value \in Values : PutSame(key, value)
    \/ \E key \in Keys : GetSame(key)
    \/ \E key \in Keys : DeleteSame(key)

SpecSame == Init /\ [][NextSame]_vars

\* C19: under the same calls OptimizedCache3 and OptimizedCache5 allow the
\* observations SimpleCache allows and no others: for every call, the same set
\* of (exception, value returned, keys and values readable afterwards,
\* replacement counter afterwards).
C19_SameObservableOutcomes ==
    IsSame(self) =>
        \A name \in {"optimized3_c", "optimized5_c"} :
            /\ Contents(self[name]) = Contents(self.simple_c)
            /\ Counter(self[name]) = Counter(self.simple_c)
            /\ \A key \in Keys :
                  /\ Observations(get(self[name], key))
                        = Observations(get(self.simple_c, key))
                  /\ Observations(delete(self[name], key))
                        = Observations(delete(self.simple_c, key))
                  /\ \A value \in Values :
                        Observations(put(self[name], key, value))
                           = Observations(put(self.simple_c, key, value))

====
